---- MODULE Spec2Model ----
(***************************************************************************)
(* A model of lineindex::IndexedString (src/src/lib.rs): the one-pass scan *)
(* make_lines that splits a string into line ranges in (byte, character)   *)
(* coordinates, the recursive bisection inner_line_for, and the line       *)
(* accessors.  A text is a sequence of Unicode scalar values; its UTF-8    *)
(* bytes are computed, so that byte offsets, s.len() and str slicing are   *)
(* what they are in the program.                                           *)
(***************************************************************************)
EXTENDS Integers, Sequences, FiniteSets, TLC

VARIABLES source, lines, pc, op, arg, frame, depth, result

vars == <<source, lines, pc, op, arg, frame, depth, result>>

\* ------------------------------------------------------------------------
\* Bounds and input alphabet
\* ------------------------------------------------------------------------

\* longest text, in code points
MaxLen == 4

\* '\n', 'a', U+00E9 (2 bytes in UTF-8), U+20AC (3 bytes in UTF-8)
NEWLINE == 10
Chars == {NEWLINE, 97, 233, 8364}

RECURSIVE SeqsUpTo(_)
SeqsUpTo(n) ==
    IF n = 0 THEN {<<>>}
    ELSE LET shorter == SeqsUpTo(n - 1)
         IN shorter \cup {Append(t, c) : t \in {u \in shorter : Len(u) = n - 1}, c \in Chars}

Texts == SeqsUpTo(MaxLen)

\* ------------------------------------------------------------------------
\* Option values and panics
\* ------------------------------------------------------------------------

None == [tag |-> "None"]
Some(v) == [tag |-> "Some", val |-> v]
Panic == [tag |-> "Panic"]
Pending == [tag |-> "Pending"]

\* ------------------------------------------------------------------------
\* str: UTF-8 encoding, len, char_indices, slicing
\* ------------------------------------------------------------------------

len_utf8(c) ==
    IF c < 128 THEN 1
    ELSE IF c < 2048 THEN 2
    ELSE IF c < 65536 THEN 3
    ELSE 4

encode_utf8(c) ==
    IF c < 128 THEN <<c>>
    ELSE IF c < 2048 THEN <<192 + (c \div 64), 128 + (c % 64)>>
    ELSE IF c < 65536 THEN
        <<224 + (c \div 4096), 128 + ((c \div 64) % 64), 128 + (c % 64)>>
    ELSE <<240 + (c \div 262144), 128 + ((c \div 4096) % 64),
           128 + ((c \div 64) % 64), 128 + (c % 64)>>

RECURSIVE as_bytes(_)
as_bytes(s) ==
    IF s = <<>> THEN <<>>
    ELSE as_bytes(SubSeq(s, 1, Len(s) - 1)) \o encode_utf8(s[Len(s)])

\* s.len(): the length of the string in bytes
RECURSIVE str_len(_)
str_len(s) ==
    IF s = <<>> THEN 0
    ELSE str_len(SubSeq(s, 1, Len(s) - 1)) + len_utf8(s[Len(s)])

\* s.char_indices(): the k-th item (1-based) is <<byte offset, code point>>
char_indices(s) ==
    [k \in 1..Len(s) |-> <<str_len(SubSeq(s, 1, k - 1)), s[k]>>]

\* str::is_char_boundary on the bytes b
is_char_boundary(b, i) ==
    \/ i = 0
    \/ i = Len(b)
    \/ i < Len(b) /\ b[i + 1] \notin 128..191

\* &s[lo..=hi]: the bytes lo..hi, a panic unless lo and hi+1 are boundaries
str_index(b, lo, hi) ==
    IF lo <= hi + 1 /\ hi + 1 <= Len(b)
       /\ is_char_boundary(b, lo) /\ is_char_boundary(b, hi + 1)
    THEN Some(SubSeq(b, lo + 1, hi + 1))
    ELSE Panic

\* ------------------------------------------------------------------------
\* Index and Range
\* ------------------------------------------------------------------------

\* the two fields exchanged
Index_swapped(b, c) == [byte |-> c, character |-> b]

Index(b, c) == [byte |-> b, character |-> c]

Range(s, e) == [start |-> s, end |-> e]

\* a RangeInclusive<usize> is the pair <<start, end>>
\* the end taken from the character coordinate
bytes_char_end(r) == <<r.start.byte, r.end.character>>

bytes(r) == <<r.start.byte, r.end.byte>>

characters(r) == <<r.start.character, r.end.character>>

contains(r, i) == r[1] <= i /\ i <= r[2]

\* ------------------------------------------------------------------------
\* IndexedString::make_lines
\* ------------------------------------------------------------------------

\* the loop's locals before the first iteration
make_lines_locals ==
    [lines |-> <<>>, start |-> Index(0, 0), next |-> FALSE]

\* the iteration that never moves start to the code point after a newline
make_lines_iter_keep_start(st, c_i, b_i, c, end) ==
    IF c = NEWLINE \/ c_i = end
    THEN [lines |-> Append(st.lines, Range(st.start, Index(b_i, c_i))),
          start |-> st.start, next |-> TRUE]
    ELSE [lines |-> st.lines, start |-> st.start, next |-> FALSE]

\* one iteration of the for loop over s.char_indices().enumerate()
make_lines_iter(st, c_i, b_i, c, end) ==
    LET start1 == IF st.next THEN Index(b_i, c_i) ELSE st.start
        next1 == IF st.next THEN FALSE ELSE st.next
    IN IF c = NEWLINE \/ c_i = end
       THEN [lines |-> Append(st.lines, Range(start1, Index(b_i, c_i))),
             start |-> start1, next |-> TRUE]
       ELSE [lines |-> st.lines, start |-> start1, next |-> next1]

RECURSIVE make_lines_loop(_, _, _, _)
make_lines_loop(s, end, k, st) ==
    IF k > Len(s) THEN st.lines
    ELSE make_lines_loop(s, end, k + 1,
            make_lines_iter(st, k - 1, char_indices(s)[k][1],
                            char_indices(s)[k][2], end))

\* end is s.len() - 1, a byte count, and is compared with the ordinal c_i
make_lines(s) ==
    IF s # <<>>
    THEN make_lines_loop(s, str_len(s) - 1, 1, make_lines_locals)
    ELSE <<>>

\* ------------------------------------------------------------------------
\* Queries on self = (source, lines)
\* ------------------------------------------------------------------------

\* Vec::get: line numbers are zero-based
lines_get(n) == IF n < Len(lines) THEN Some(lines[n + 1]) ELSE None

byte_range_for_line(line) ==
    IF lines_get(line) = None THEN None
    ELSE Some(bytes(lines_get(line).val))

character_range_for_line(line) ==
    IF lines_get(line) = None THEN None
    ELSE Some(characters(lines_get(line).val))

line_str(line) ==
    IF byte_range_for_line(line) = None THEN None
    ELSE str_index(as_bytes(source), byte_range_for_line(line).val[1],
                   byte_range_for_line(line).val[2])

Return(v) == [kind |-> "return", value |-> v, start |-> 0, end |-> 0]
Call(s, e) == [kind |-> "call", value |-> Pending, start |-> s, end |-> e]

\* the upper half entered at mid_index instead of mid_index + 1
inner_line_for_upper_from_mid(byte, index, start, end) ==
    IF start > end THEN Return(Panic)
    ELSE LET mid_index == start + ((end - start) \div 2)
         IN IF lines_get(mid_index) = None THEN Return(Panic)
            ELSE LET r == lines_get(mid_index).val
                     mid_range == IF byte THEN bytes(r) ELSE characters(r)
                 IN IF contains(mid_range, index) THEN Return(Some(mid_index))
                    ELSE IF mid_index > start /\ index < mid_range[1]
                         THEN Call(start, mid_index - 1)
                    ELSE IF mid_index < end /\ index > mid_range[2]
                         THEN Call(mid_index, end)
                    ELSE Return(None)

\* one activation of inner_line_for: it returns a value, or makes the one
\* recursive call whose value it returns.  end - start with start > end is
\* an overflow panic, as is the unwrap of a None.
inner_line_for(byte, index, start, end) ==
    IF start > end THEN Return(Panic)
    ELSE LET mid_index == start + ((end - start) \div 2)
         IN IF lines_get(mid_index) = None THEN Return(Panic)
            ELSE LET r == lines_get(mid_index).val
                     mid_range == IF byte THEN bytes(r) ELSE characters(r)
                 IN IF contains(mid_range, index) THEN Return(Some(mid_index))
                    ELSE IF mid_index > start /\ index < mid_range[1]
                         THEN Call(start, mid_index - 1)
                    ELSE IF mid_index < end /\ index > mid_range[2]
                         THEN Call(mid_index + 1, end)
                    ELSE Return(None)

NoFrame == [byte |-> FALSE, index |-> 0, start |-> 0, end |-> 0]

\* arguments tried by the queries: every offset of the text and two beyond
Args == 0..(str_len(source) + 1)

\* ------------------------------------------------------------------------
\* State machine
\* ------------------------------------------------------------------------

\* IndexedString::from(s)
Init ==
    /\ source \in Texts
    /\ lines = make_lines(source)
    /\ pc = "ready"
    /\ op = "none"
    /\ arg = 0
    /\ frame = NoFrame
    /\ depth = 0
    /\ result = Pending

\* line_for(byte, index): the outermost activation of inner_line_for
line_for(name, byte, index) ==
    /\ pc = "ready"
    /\ pc' = "bisect"
    /\ op' = name
    /\ arg' = index
    /\ frame' = [byte |-> byte, index |-> index, start |-> 0, end |-> Len(lines)]
    /\ depth' = 1
    /\ result' = Pending
    /\ UNCHANGED <<source, lines>>

LineForByte == \E n \in Args : line_for("line_for_byte", TRUE, n)

LineForCharacter == \E n \in Args : line_for("line_for_character", FALSE, n)

\* the current activation of inner_line_for runs
InnerLineFor ==
    /\ pc = "bisect"
    /\ LET o == inner_line_for(frame.byte, frame.index, frame.start, frame.end)
       IN IF o.kind = "call"
          THEN /\ frame' = [frame EXCEPT !.start = o.start, !.end = o.end]
               /\ depth' = depth + 1
               /\ UNCHANGED <<pc, result>>
          ELSE /\ pc' = "done"
               /\ result' = o.value
               /\ UNCHANGED <<frame, depth>>
    /\ UNCHANGED <<source, lines, op, arg>>

Answer(name, n, v) ==
    /\ pc = "ready"
    /\ pc' = "done"
    /\ op' = name
    /\ arg' = n
    /\ result' = v
    /\ UNCHANGED <<source, lines, frame, depth>>

ByteRangeForLine ==
    \E n \in Args : Answer("byte_range_for_line", n, byte_range_for_line(n))

CharacterRangeForLine ==
    \E n \in Args :
        Answer("character_range_for_line", n, character_range_for_line(n))

LineStr == \E n \in Args : Answer("line_str", n, line_str(n))

\* the caller takes the value; the index is unchanged and can be asked again
Done ==
    /\ pc = "done"
    /\ pc' = "ready"
    /\ op' = "none"
    /\ arg' = 0
    /\ frame' = NoFrame
    /\ depth' = 0
    /\ result' = Pending
    /\ UNCHANGED <<source, lines>>

Next ==
    \/ LineForByte
    \/ LineForCharacter
    \/ InnerLineFor
    \/ ByteRangeForLine
    \/ CharacterRangeForLine
    \/ LineStr
    \/ Done

Spec == Init /\ [][Next]_vars

\* ------------------------------------------------------------------------
\* Properties
\* ------------------------------------------------------------------------

\* span n (zero-based) of the index
Span(n) == lines[n + 1]

LastEnd == lines[Len(lines)].end

\* the concatenation of line_str(0) .. line_str(n - 1)
RECURSIVE LinesText(_)
LinesText(n) ==
    IF n = 0 THEN <<>> ELSE LinesText(n - 1) \o line_str(n - 1).val

\* C1: concatenating line_str(i) for i = 0 .. lines() - 1, in order,
\* reproduces the source text exactly.
C1_Partition ==
    /\ \A i \in 0..(Len(lines) - 1) : line_str(i).tag = "Some"
    /\ LinesText(Len(lines)) = as_bytes(source)

\* the result of a finished lookup is Some(L), L being the one line whose
\* inclusive range (in the coordinate asked for) contains the offset
FoundIn(byte) ==
    /\ result.tag = "Some"
    /\ result.val \in 0..(Len(lines) - 1)
    /\ \A n \in 0..(Len(lines) - 1) :
          contains(IF byte THEN bytes(Span(n)) ELSE characters(Span(n)), arg)
              <=> n = result.val

\* C2: for every byte offset below the text's byte length line_for_byte,
\* and for every code-point ordinal below the number of code points
\* line_for_character, returns Some(L) with the offset inside span L and
\* inside no other span.
C2_Coverage ==
    pc = "done" =>
        /\ (op = "line_for_byte" /\ arg < str_len(source)) => FoundIn(TRUE)
        /\ (op = "line_for_character" /\ arg < Len(source)) => FoundIn(FALSE)

\* C3: on a non-empty text a lookup of an offset beyond the last span's end
\* (in particular of the byte length of the text) returns None.
C3_OutOfRange ==
    (pc = "done" /\ source # <<>> /\ Len(lines) > 0) =>
        /\ (op = "line_for_byte" /\ arg > LastEnd.byte) => result = None
        /\ (op = "line_for_character" /\ arg > LastEnd.character) =>
              result = None

\* C4: the index of the empty text has no lines and every query on it
\* returns None, for every argument.
C4_EmptyInput ==
    source = <<>> =>
        /\ Len(lines) = 0
        /\ pc = "done" => result = None

\* C5: the span sequence is empty if and only if the source text is empty.
C5_EmptyIffEmpty == Len(lines) = 0 <=> source = <<>>

\* C6: every span but the last ends at a newline, no span has a newline
\* before its end, and the last span ends at the final code point of the
\* text, in both coordinates.
C6_LineEnding ==
    Len(lines) > 0 =>
        /\ \A i \in 1..(Len(lines) - 1) :
              source[lines[i].end.character + 1] = NEWLINE
        /\ \A i \in 1..Len(lines) :
              \A k \in lines[i].start.character..(lines[i].end.character - 1) :
                  source[k + 1] # NEWLINE
        /\ LastEnd.character = Len(source) - 1
        /\ LastEnd.byte = str_len(source) - len_utf8(source[Len(source)])

\* C7: the first span starts at (0, 0); each next span starts at the code
\* point right after the previous span's end, in both coordinates; spans
\* are strictly increasing and no offset lies in two spans.
C7_Contiguity ==
    /\ Len(lines) > 0 => lines[1].start = [byte |-> 0, character |-> 0]
    /\ \A i \in 1..(Len(lines) - 1) :
          /\ lines[i + 1].start.character = lines[i].end.character + 1
          /\ lines[i + 1].start.byte =
                lines[i].end.byte + len_utf8(source[lines[i].end.character + 1])
    /\ \A i, j \in 1..Len(lines) :
          i < j => /\ lines[i].end.byte < lines[j].start.byte
                   /\ lines[i].end.character < lines[j].start.character
    /\ \A i, j \in 1..Len(lines) : \A b \in 0..str_len(source) :
          (/\ lines[i].start.byte <= b /\ b <= lines[i].end.byte
           /\ lines[j].start.byte <= b /\ b <= lines[j].end.byte) => i = j

\* a text with a multi-byte code point on its first line and a second line
C7_Witness ==
    /\ Len(lines) >= 2
    /\ lines[2].start.byte > lines[2].start.character

\* C8: the line-number queries return Some exactly for n < lines(); the
\* ranges are span n's inclusive start and end in their coordinate, and
\* line_str(n) is the text of the code points of span n, its ending
\* newline included, cut on code-point boundaries without a panic.
C8_LineQueries ==
    pc = "done" =>
        /\ op = "byte_range_for_line" =>
              result = IF arg < Len(lines)
                       THEN Some(<<Span(arg).start.byte, Span(arg).end.byte>>)
                       ELSE None
        /\ op = "character_range_for_line" =>
              result = IF arg < Len(lines)
                       THEN Some(<<Span(arg).start.character,
                                   Span(arg).end.character>>)
                       ELSE None
        /\ op = "line_str" =>
              IF arg < Len(lines)
              THEN /\ result.tag = "Some"
                   /\ result.val = SubSeq(as_bytes(source),
                                          Span(arg).start.byte + 1,
                                          Span(arg).end.byte + 1)
                   /\ result.val = as_bytes(SubSeq(source,
                                          Span(arg).start.character + 1,
                                          Span(arg).end.character + 1))
              ELSE result = None

\* line_str returned a line that holds a multi-byte code point and ends
\* with its newline
C8_Witness ==
    /\ pc = "done"
    /\ op = "line_str"
    /\ result.tag = "Some"
    /\ Len(result.val) >= 3
    /\ result.val[1] > 127
    /\ result.val[Len(result.val)] = NEWLINE

\* C9: in every stored Index character <= byte, and in every span the
\* start is not after the end in either coordinate.
C9_WellFormed ==
    \A i \in 1..Len(lines) :
        /\ lines[i].start.character <= lines[i].start.byte
        /\ lines[i].end.character <= lines[i].end.byte
        /\ lines[i].start.byte <= lines[i].end.byte
        /\ lines[i].start.character <= lines[i].end.character

\* a span of several code points whose end is past a multi-byte code point
C9_Witness ==
    \E i \in 1..Len(lines) :
        /\ lines[i].end.character < lines[i].end.byte
        /\ lines[i].start.character < lines[i].end.character

\* C10: every activation of inner_line_for has 0 <= start <= end, every
\* recursive call has a strictly smaller end - start than its caller, and
\* no lookup nests more than lines.len() + 1 activations.
C10_BisectionProgress ==
    [][/\ pc' = "bisect" =>
            /\ 0 <= frame'.start
            /\ frame'.start <= frame'.end
       /\ depth' <= Len(lines') + 1
       /\ (pc = "bisect" /\ pc' = "bisect") =>
            frame'.end - frame'.start < frame.end - frame.start]_vars

\* a lookup that has recursed twice
C10_Witness == pc = "bisect" /\ depth = 3

====
